---- MODULE Spec2Model ----
(***************************************************************************)
(* Account-history cache of src/providers/accounts/history.tsx: the pure   *)
(* reconciler (combineFetched, reconcile), the page fetch of               *)
(* fetchAccountHistory, the trigger callback of useFetchAccountHistory and *)
(* the clear-on-scope-change effect of HistoryProvider, run against the    *)
(* cache reducer of providers/cache.                                       *)
(***************************************************************************)
EXTENDS Integers, Sequences, FiniteSets, Bags, TLC

\* ---------------------------------------------------------------- bounds
PartialPage == 2       \* blocks on an account's last, partial page
MaxInFlight == 2       \* fetches in flight at once, over all keys
MaxLen == 2            \* longest sequence drawn as a reconcile input
MaxSig == 3            \* signatures drawn as reconcile inputs

\* ------------------------------------------------------------- constants
PageLimit == 5         \* `limit: 5` of both fetchAccountHistory calls

Keys == {"k1", "k2"}
Urls == {"u1", "u2"}
\* no block; a partial page; a full page; one and a half pages; two full pages
UpstreamLens ==
  {0, PartialPage, PageLimit, PageLimit + PartialPage, 2 * PageLimit}
\* the block lists the accounts can have: k1 of every length, k2 a short one
UpstreamChoices ==
  {[k \in Keys |-> IF k = "k1" THEN n ELSE PartialPage] : n \in UpstreamLens}

\* `undefined`: an absent history, update, cache entry or cursor
Undefined == [undefined |-> TRUE]
NoSignature == 0
\* an absent fetched array, told apart from every array of records
UndefinedFetched == <<Undefined>>

VARIABLES
  clusterUrl,     \* url of useCluster()
  state,          \* the reducer state: [url, entries]
  inflight,       \* bag of fetchAccountHistory calls awaiting their provider
  Blocks,         \* per key, the number of blocks RetrieveBlocksFromAccount lists
  lastEvent,      \* the handler that ran last, with what it dispatched
  rHistory, rUpdate, rResult   \* inputs and result of a direct reconcile call

vars == <<clusterUrl, state, inflight, Blocks, lastEvent,
          rHistory, rUpdate, rResult>>
storeVars == <<clusterUrl, state, inflight, Blocks, lastEvent>>
pureVars == <<rHistory, rUpdate, rResult>>

\* ------------------------------------------------------- upstream records
\* Slot of the i-th listed block: not in page order, and blocks 3 and 4 tie.
SlotOf(i) ==
  IF i = 1 THEN 98 ELSE IF i = 2 THEN 99 ELSE IF i = 3 THEN 96
  ELSE IF i = 7 THEN 95 ELSE 100 - i

\* RetrieveBlockData(Blocks[i]) pushed as a ConfirmedSignatureInfo
RecordOf(i) == [signature |-> i, slot |-> SlotOf(i)]

Min(a, b) == IF a < b THEN a ELSE b

RawPage_skipsFirst(n, start, limit) ==
  LET stop == Min(n, start + 1 + limit)
      cnt == IF stop > start + 1 THEN stop - (start + 1) ELSE 0
  IN [j \in 1..cnt |-> RecordOf(start + 1 + j)]

\* the loop of fetchAccountHistory: i from start while i < length, i < start+limit
RawPage(n, start, limit) ==
  LET stop == Min(n, start + limit)
      cnt == IF stop > start THEN stop - start ELSE 0
  IN [j \in 1..cnt |-> RecordOf(start + j)]

\* fetched.sort(...): an arrangement with slots descending (ties either way)
\* the arrangements of the records at indices left, largest slot first
RECURSIVE SortedFrom(_, _)
SortedFrom(raw, left) ==
  IF left = {} THEN {<< >>}
  ELSE UNION {{<<raw[i]>> \o rest : rest \in SortedFrom(raw, left \ {i})} :
              i \in {m \in left : \A j \in left : raw[m].slot >= raw[j].slot}}

\* fetched.sort(...): an arrangement with slots descending (ties either way)
SortedPages(raw) == SortedFrom(raw, 1..Len(raw))

FoundOldest_offByOne(fetched, limit) == Len(fetched) <= limit

FoundOldest(fetched, limit) == Len(fetched) < limit

\* the history a successful fetch reports
FetchedHistory(fetched, limit) ==
  [fetched |-> fetched, foundOldest |-> FoundOldest(fetched, limit)]

\* ------------------------------------------------------------- reconciler
combineFetched_prepend(fetched, current, before) ==
  IF current = UndefinedFetched THEN fetched
  ELSE IF Len(current) > 0 /\ current[Len(current)].signature = before
       THEN fetched \o current
       ELSE fetched

combineFetched_alwaysAppend(fetched, current, before) ==
  IF current = UndefinedFetched THEN fetched
  ELSE IF Len(current) > 0 THEN current \o fetched ELSE fetched

combineFetched_keepOnMismatch(fetched, current, before) ==
  IF current = UndefinedFetched THEN fetched
  ELSE IF Len(current) > 0 /\ current[Len(current)].signature = before
       THEN current \o fetched
       ELSE current

combineFetched_noCursorAppends(fetched, current, before) ==
  IF current = UndefinedFetched THEN fetched
  ELSE IF Len(current) > 0
          /\ (before = NoSignature \/ current[Len(current)].signature = before)
       THEN current \o fetched
       ELSE fetched

combineFetched_alwaysReplace(fetched, current, before) == fetched

combineFetched(fetched, current, before) ==
  IF current = UndefinedFetched THEN fetched
  ELSE IF Len(current) > 0 /\ current[Len(current)].signature = before
       THEN current \o fetched
       ELSE fetched

\* history?.fetched
HistoryFetched(history) ==
  IF history = Undefined THEN UndefinedFetched ELSE history.fetched

\* update?.history
UpdateHistory(update) ==
  IF update = Undefined THEN Undefined ELSE update.history

reconcile_erase(history, update) ==
  IF UpdateHistory(update) = Undefined THEN Undefined
  ELSE [fetched |-> combineFetched(update.history.fetched,
                      HistoryFetched(history),
                      update.before),
        foundOldest |-> update.history.foundOldest
                        \/ (history # Undefined /\ history.foundOldest)]

reconcile_reset(history, update) ==
  IF UpdateHistory(update) = Undefined
  THEN [fetched |-> << >>, foundOldest |-> FALSE]
  ELSE [fetched |-> combineFetched(update.history.fetched,
                      HistoryFetched(history),
                      update.before),
        foundOldest |-> update.history.foundOldest
                        \/ (history # Undefined /\ history.foundOldest)]

reconcile_lastFlag(history, update) ==
  IF UpdateHistory(update) = Undefined THEN history
  ELSE [fetched |-> combineFetched(update.history.fetched,
                      HistoryFetched(history),
                      update.before),
        foundOldest |-> update.history.foundOldest]

reconcile(history, update) ==
  IF UpdateHistory(update) = Undefined THEN history
  ELSE [fetched |-> combineFetched(update.history.fetched,
                      HistoryFetched(history),
                      update.before),
        foundOldest |-> update.history.foundOldest
                        \/ (history # Undefined /\ history.foundOldest)]

\* ------------------------------------------------------------ cache store
NoEntries == [k \in Keys |-> Undefined]

EntryData(entry) == IF entry = Undefined THEN Undefined ELSE entry.data

\* Cache reducer: Clear drops every entry and adopts the url; an Update for
\* another url is dropped; an Update sets the status and reconciles the data.
reducer(st, action) ==
  IF action.type = "Clear" THEN [url |-> action.url, entries |-> NoEntries]
  ELSE IF action.url # st.url THEN st
  ELSE [st EXCEPT !.entries[action.key] =
          [status |-> action.status,
           data |-> reconcile(EntryData(st.entries[action.key]), action.data),
           scope |-> action.url]]

\* ------------------------------------------------------------------ events
\* type: the handler; key: its key; refresh: of a trigger, and of the trigger
\* of a completed fetch; issued: of a trigger; ok, applied,
\* stale, full (it reported foundOldest false): of a completion; populated: a
\* clear found entries to drop
NoEvent ==
  [type |-> "init", key |-> "none", refresh |-> FALSE, issued |-> FALSE,
   ok |-> FALSE, applied |-> FALSE, stale |-> FALSE, full |-> FALSE,
   populated |-> FALSE]

\* ----------------------------------------------------------------- trigger
HasHistory(entry) == entry # Undefined /\ entry.data # Undefined

HasFetched(entry) ==
  /\ entry # Undefined
  /\ entry.data # Undefined
  /\ Len(entry.data.fetched) > 0

\* The decision of the useFetchAccountHistory callback: Undefined for the
\* early return, else the options handed to fetchAccountHistory.
FetchOptions_ignoreOldest(entry, refresh) ==
  IF ~refresh /\ HasFetched(entry)
  THEN [before |-> entry.data.fetched[Len(entry.data.fetched)].signature,
        start |-> Len(entry.data.fetched), limit |-> PageLimit]
  ELSE [before |-> NoSignature, start |-> 0, limit |-> PageLimit]

FetchOptions_firstCursor(entry, refresh) ==
  IF ~refresh /\ HasFetched(entry)
  THEN IF entry.data.foundOldest THEN Undefined
       ELSE [before |-> entry.data.fetched[1].signature,
             start |-> Len(entry.data.fetched), limit |-> PageLimit]
  ELSE [before |-> NoSignature, start |-> 0, limit |-> PageLimit]

FetchOptions(entry, refresh) ==
  IF ~refresh /\ HasFetched(entry)
  THEN IF entry.data.foundOldest THEN Undefined
       ELSE [before |-> entry.data.fetched[Len(entry.data.fetched)].signature,
             start |-> Len(entry.data.fetched), limit |-> PageLimit]
  ELSE [before |-> NoSignature, start |-> 0, limit |-> PageLimit]

\* a fetchAccountHistory call awaiting its provider: the arguments of the
\* call, whether the trigger was a refresh of a key that had a history, and
\* whether the store has since been cleared for another url
Request(key, url, options, refresh) ==
  [key |-> key, url |-> url, before |-> options.before,
   start |-> options.start, limit |-> options.limit, refresh |-> refresh,
   stale |-> FALSE]

Trigger_noFetching(key, refresh) ==
  LET options == FetchOptions(state.entries[key], refresh) IN
  /\ IF options = Undefined
     THEN /\ UNCHANGED <<state, inflight>>
          /\ lastEvent' = [NoEvent EXCEPT !.type = "trigger", !.key = key,
                             !.refresh = refresh]
     ELSE /\ BagCardinality(inflight) < MaxInFlight
          /\ UNCHANGED state
          /\ inflight' = inflight (+) SetToBag({Request(key, clusterUrl, options,
                            refresh /\ HasHistory(state.entries[key]))})
          /\ lastEvent' = [NoEvent EXCEPT !.type = "trigger", !.key = key,
                             !.refresh = refresh, !.issued = TRUE]
  /\ UNCHANGED <<clusterUrl, Blocks>>
  /\ UNCHANGED pureVars

\* the callback of useFetchAccountHistory, with the first dispatch of the
\* fetchAccountHistory call it makes
Trigger(key, refresh) ==
  LET options == FetchOptions(state.entries[key], refresh) IN
  /\ IF options = Undefined
     THEN /\ UNCHANGED <<state, inflight>>
          /\ lastEvent' = [NoEvent EXCEPT !.type = "trigger", !.key = key,
                             !.refresh = refresh]
     ELSE /\ BagCardinality(inflight) < MaxInFlight
          /\ state' = reducer(state, [type |-> "Update", status |-> "Fetching",
                                      key |-> key, url |-> clusterUrl,
                                      data |-> Undefined])
          /\ inflight' = inflight (+) SetToBag({Request(key, clusterUrl, options,
                            refresh /\ HasHistory(state.entries[key]))})
          /\ lastEvent' = [NoEvent EXCEPT !.type = "trigger", !.key = key,
                             !.refresh = refresh, !.issued = TRUE]
  /\ UNCHANGED <<clusterUrl, Blocks>>
  /\ UNCHANGED pureVars

\* -------------------------------------------------------------- completion
\* data of the second dispatch: { history, before: options?.before }
CompletionData_noBefore(r, ok, fetched) ==
  [history |-> IF ok THEN FetchedHistory(fetched, r.limit) ELSE Undefined,
   before |-> NoSignature]

CompletionData(r, ok, fetched) ==
  [history |-> IF ok THEN FetchedHistory(fetched, r.limit) ELSE Undefined,
   before |-> r.before]

Complete_otherKey(r, ok, fetched) ==
  LET update == CompletionData(r, ok, fetched)
      history == update.history
  IN /\ state' = reducer(state, [type |-> "Update", url |-> r.url,
                                 key |-> CHOOSE k \in Keys : k # r.key,
                                 status |-> IF ok THEN "Fetched" ELSE "FetchFailed",
                                 data |-> update])
     /\ inflight' = inflight (-) SetToBag({r})
     /\ lastEvent' = [NoEvent EXCEPT !.type = "complete", !.key = r.key,
                        !.ok = ok, !.applied = (r.url = state.url),
                        !.refresh = r.refresh,
                        !.stale = r.stale,
                        !.full = (ok /\ ~history.foundOldest)]
     /\ UNCHANGED <<clusterUrl, Blocks>>
     /\ UNCHANGED pureVars

\* the second dispatch of fetchAccountHistory, after the try/catch
Complete(r, ok, fetched) ==
  LET update == CompletionData(r, ok, fetched)
      history == update.history
  IN /\ state' = reducer(state, [type |-> "Update", url |-> r.url, key |-> r.key,
                                 status |-> IF ok THEN "Fetched" ELSE "FetchFailed",
                                 data |-> update])
     /\ inflight' = inflight (-) SetToBag({r})
     /\ lastEvent' = [NoEvent EXCEPT !.type = "complete", !.key = r.key,
                        !.ok = ok, !.applied = (r.url = state.url),
                        !.refresh = r.refresh,
                        !.stale = r.stale,
                        !.full = (ok /\ ~history.foundOldest)]
     /\ UNCHANGED <<clusterUrl, Blocks>>
     /\ UNCHANGED pureVars

FetchSucceeds ==
  \E r \in BagToSet(inflight) :
    \E fetched \in SortedPages(RawPage(Blocks[r.key], r.start, r.limit)) :
      Complete(r, TRUE, fetched)

FetchFails ==
  \E r \in BagToSet(inflight) : Complete(r, FALSE, << >>)

\* ------------------------------------------------------------ scope change
\* a fetch issued under another url than the one cleared for is now stale
MarkStale(B, u) ==
  LET f(r) == [r EXCEPT !.stale = r.stale \/ r.url # u]
  IN [x \in {f(r) : r \in DOMAIN B} |->
        (IF x \in DOMAIN B /\ f(x) = x THEN B[x] ELSE 0)
        + (IF x.stale /\ [x EXCEPT !.stale = FALSE] \in DOMAIN B
              /\ f([x EXCEPT !.stale = FALSE]) = x
           THEN B[[x EXCEPT !.stale = FALSE]] ELSE 0)]

ChangeCluster_noClear(u) ==
  /\ u # clusterUrl
  /\ clusterUrl' = u
  /\ state' = [state EXCEPT !.url = u]
  /\ inflight' = MarkStale(inflight, u)
  /\ lastEvent' = [NoEvent EXCEPT !.type = "clear",
                     !.populated = (state.entries # NoEntries)]
  /\ UNCHANGED Blocks
  /\ UNCHANGED pureVars

\* useCluster() yields another url and the [dispatch, url] effect of
\* HistoryProvider dispatches Clear for it in the commit that renders it
ChangeCluster(u) ==
  /\ u # clusterUrl
  /\ clusterUrl' = u
  /\ state' = reducer(state, [type |-> "Clear", url |-> u])
  /\ inflight' = MarkStale(inflight, u)
  /\ lastEvent' = [NoEvent EXCEPT !.type = "clear",
                     !.populated = (state.entries # NoEntries)]
  /\ UNCHANGED Blocks
  /\ UNCHANGED pureVars

\* ------------------------------------------------------------------- specs
PureIdle ==
  /\ rHistory = Undefined
  /\ rUpdate = Undefined
  /\ rResult = [done |-> FALSE, value |-> Undefined]

Init ==
  /\ clusterUrl = "u1"
  /\ state = [url |-> clusterUrl, entries |-> NoEntries]
  /\ inflight = EmptyBag
  /\ Blocks \in UpstreamChoices
  /\ lastEvent = NoEvent
  /\ PureIdle

Next ==
  \/ \E k \in Keys, refresh \in BOOLEAN : Trigger(k, refresh)
  \/ FetchSucceeds
  \/ FetchFails
  \/ \E u \in Urls : ChangeCluster(u)

Spec == Init /\ [][Next]_vars

\* --------------------------------------------------- one scope throughout
NextOneScope ==
  \/ \E k \in Keys, refresh \in BOOLEAN : Trigger(k, refresh)
  \/ FetchSucceeds
  \/ FetchFails

SpecOneScope == Init /\ [][NextOneScope]_vars

\* ------------------------------------------- pagination, one fetch at a time
\* a trigger without refresh for a key that has no fetch in flight
PaginateTrigger(k) ==
  /\ \A r \in BagToSet(inflight) : r.key # k
  /\ Trigger(k, FALSE)

\* the fetch of key k succeeds
PaginateSucceeds(k) ==
  \E r \in BagToSet(inflight) :
    /\ r.key = k
    /\ \E fetched \in SortedPages(RawPage(Blocks[r.key], r.start, r.limit)) :
         Complete(r, TRUE, fetched)

NextPaginate ==
  \/ \E k \in Keys : PaginateTrigger(k)
  \/ \E k \in Keys : PaginateSucceeds(k)

\* the caller keeps triggering and every fetch comes back
SpecPaginate ==
  /\ Init
  /\ [][NextPaginate]_vars
  /\ \A k \in Keys : WF_vars(PaginateTrigger(k)) /\ WF_vars(PaginateSucceeds(k))

\* ---------------------------------------------- reconcile called directly
Records == {[signature |-> s, slot |-> 100 - s] : s \in 1..MaxSig}
RecordSeqs == UNION {[1..n -> Records] : n \in 0..MaxLen}
Histories == [fetched : RecordSeqs, foundOldest : BOOLEAN]
Updates ==
  [history : Histories \cup {Undefined}, before : 0..MaxSig] \cup {Undefined}

InitReconcile ==
  /\ rHistory \in Histories \cup {Undefined}
  /\ rUpdate \in Updates
  /\ rResult = [done |-> FALSE, value |-> Undefined]
  /\ clusterUrl = "u1"
  /\ state = [url |-> "u1", entries |-> NoEntries]
  /\ inflight = EmptyBag
  /\ Blocks = [k \in Keys |-> 0]
  /\ lastEvent = NoEvent

ApplyReconcile ==
  /\ ~rResult.done
  /\ rResult' = [done |-> TRUE, value |-> reconcile(rHistory, rUpdate)]
  /\ UNCHANGED <<rHistory, rUpdate>>
  /\ UNCHANGED storeVars

NextReconcile == ApplyReconcile

SpecReconcile == InitReconcile /\ [][NextReconcile]_vars

\* ================================================================ claims
\* C1 as stated: whenever a fetch for a key with a stored history fails, the
\* completion update leaves the key's data as it was and its status FetchFailed.
C1_FailurePreservesData_AsStated ==
  [][\A r \in BagToSet(inflight) :
       (Complete(r, FALSE, << >>) /\ HasHistory(state.entries[r.key]))
       => /\ state'.entries[r.key] # Undefined
          /\ state'.entries[r.key].status = "FetchFailed"
          /\ state'.entries[r.key].data = state.entries[r.key].data]_vars

\* C1 amended: a failed completion whose url is still the store's leaves the
\* key's data as it was and its status FetchFailed; a failed completion for
\* another url leaves the whole store as it was.
C1_FailurePreservesData ==
  [][\A r \in BagToSet(inflight) :
       (Complete(r, FALSE, << >>) /\ HasHistory(state.entries[r.key]))
       => IF r.url = state.url
          THEN /\ state'.entries[r.key] # Undefined
               /\ state'.entries[r.key].status = "FetchFailed"
               /\ state'.entries[r.key].data = state.entries[r.key].data
          ELSE state' = state]_vars

\* a failure was applied onto a key that keeps its records
C1_Witness ==
  /\ lastEvent.type = "complete" /\ ~lastEvent.ok /\ lastEvent.applied
  /\ HasFetched(state.entries[lastEvent.key])
  /\ state.entries[lastEvent.key].status = "FetchFailed"

\* C2: a key whose stored history has foundOldest keeps it through every
\* trigger and every completion, until the store is cleared.
C2_MonotonicOldest ==
  [][\A k \in Keys :
       (/\ HasHistory(state.entries[k])
        /\ state.entries[k].data.foundOldest
        /\ lastEvent'.type # "clear")
       => /\ HasHistory(state'.entries[k])
          /\ state'.entries[k].data.foundOldest]_vars

\* a completion that reported foundOldest false was applied, and the key
\* still has foundOldest
C2_Witness ==
  /\ lastEvent.type = "complete" /\ lastEvent.applied /\ lastEvent.full
  /\ HasHistory(state.entries[lastEvent.key])
  /\ state.entries[lastEvent.key].data.foundOldest

\* C3: a trigger without refresh for a key that has records and foundOldest
\* issues no fetch and leaves the store as it was.
C3_PaginationTermination ==
  [][\A k \in Keys :
       (/\ Trigger(k, FALSE)
        /\ HasFetched(state.entries[k])
        /\ state.entries[k].data.foundOldest)
       => UNCHANGED <<state, inflight>>]_vars

\* such a trigger has run and returned early
C3_Witness ==
  /\ lastEvent.type = "trigger" /\ ~lastEvent.refresh /\ ~lastEvent.issued
  /\ HasFetched(state.entries[lastEvent.key])
  /\ state.entries[lastEvent.key].data.foundOldest

\* C4: no signature occurs twice in a key's fetched sequence.
C4_NoDuplication ==
  \A k \in Keys :
    HasHistory(state.entries[k])
    => LET f == state.entries[k].data.fetched
       IN \A i, j \in 1..Len(f) : f[i].signature = f[j].signature => i = j

\* the page a successful fetch of request r can report
PagesOf(r) == SortedPages(RawPage(Blocks[r.key], r.start, r.limit))

\* C8: the history of a successful fetch holds at most limit records, has
\* foundOldest false on exactly limit records and true on fewer.
C8_PageSizeBoundary ==
  \A r \in BagToSet(inflight) :
    \A fetched \in PagesOf(r) :
      LET h == FetchedHistory(fetched, r.limit)
      IN /\ Len(h.fetched) <= r.limit
         /\ Len(h.fetched) = r.limit => ~h.foundOldest
         /\ Len(h.fetched) < r.limit => h.foundOldest

\* a full page is about to be reported for one key while a short page was
\* just reported for a key
C8_Witness ==
  /\ lastEvent.type = "complete" /\ lastEvent.ok /\ ~lastEvent.full
  /\ \E r \in BagToSet(inflight) :
       \E fetched \in PagesOf(r) : Len(fetched) = r.limit

\* C9: right after a clear no key has an entry, and every entry of the store
\* was written under the store's current url.
C9_ScopeSwitch ==
  /\ lastEvent.type = "clear" => state.entries = NoEntries
  /\ \A k \in Keys :
       state.entries[k] # Undefined => state.entries[k].scope = state.url

\* a clear has dropped the entries of populated keys
C9_Witness ==
  /\ lastEvent.type = "clear" /\ lastEvent.populated
  /\ state.entries = NoEntries

\* C10: the completion of a fetch that was in flight when the store was
\* cleared for another url leaves the store as it was.
C10_StaleCompletionNoOp ==
  [][(lastEvent'.type = "complete" /\ lastEvent'.stale) => state' = state]_vars

\* ------------------------------------------------ claims about reconcile
\* C5: a non-empty existing sequence whose last signature is update.before
\* is kept as the prefix of the result, followed by the incoming page.
C5_Continuity ==
  (/\ rResult.done
   /\ UpdateHistory(rUpdate) # Undefined
   /\ rHistory # Undefined
   /\ Len(rHistory.fetched) > 0
   /\ rHistory.fetched[Len(rHistory.fetched)].signature = rUpdate.before)
  => rResult.value.fetched = rHistory.fetched \o rUpdate.history.fetched

\* reconcile appended a non-empty page to a non-empty sequence
C5_Witness ==
  /\ rResult.done
  /\ UpdateHistory(rUpdate) # Undefined
  /\ rHistory # Undefined
  /\ Len(rHistory.fetched) > 0
  /\ rHistory.fetched[Len(rHistory.fetched)].signature = rUpdate.before
  /\ Len(rUpdate.history.fetched) > 0
  /\ Len(rResult.value.fetched) = Len(rHistory.fetched) + Len(rUpdate.history.fetched)

\* C6: an existing sequence that is empty, or whose last signature differs
\* from update.before, is discarded: the result is the incoming page.
C6_Mismatch ==
  (/\ rResult.done
   /\ UpdateHistory(rUpdate) # Undefined
   /\ rHistory # Undefined
   /\ \/ Len(rHistory.fetched) = 0
      \/ rHistory.fetched[Len(rHistory.fetched)].signature # rUpdate.before)
  => rResult.value.fetched = rUpdate.history.fetched

\* reconcile replaced a non-empty sequence on a cursor that is not its tail
C6_Witness ==
  /\ rResult.done
  /\ UpdateHistory(rUpdate) # Undefined
  /\ rHistory # Undefined
  /\ Len(rHistory.fetched) > 0
  /\ rUpdate.before # NoSignature
  /\ rHistory.fetched[Len(rHistory.fetched)].signature # rUpdate.before
  /\ rResult.value.fetched = rUpdate.history.fetched
  /\ rResult.value.fetched # rHistory.fetched

\* C7: an update without a history returns the prior history as it is.
C7_StatusOnlyKeepsData ==
  (rResult.done /\ UpdateHistory(rUpdate) = Undefined)
  => rResult.value = rHistory

\* reconcile returned a history with records on an update that has none
C7_Witness ==
  /\ rResult.done
  /\ rUpdate # Undefined /\ rUpdate.history = Undefined
  /\ rHistory # Undefined /\ Len(rHistory.fetched) > 0
  /\ rResult.value = rHistory

\* ------------------------------------------------- claims C11 and onwards
\* the status of key k's entry, "Idle" when it has none
StatusOf(st, k) ==
  IF st.entries[k] = Undefined THEN "Idle" ELSE st.entries[k].status

\* C11: a trigger that issues a fetch sets the key's status to Fetching and
\* puts exactly one fetch in flight; a trigger that returns early puts none;
\* every completion takes exactly one fetch out of flight and dispatches one
\* update, Fetched on success and FetchFailed on a throw (dropped by the
\* store when its url is not the store's).
C11_OneRequestPerTrigger ==
  [][/\ (lastEvent'.type = "trigger" /\ lastEvent'.issued)
        => /\ StatusOf(state', lastEvent'.key) = "Fetching"
           /\ BagCardinality(inflight') = BagCardinality(inflight) + 1
           /\ \E r \in BagToSet(inflight') :
                /\ r.key = lastEvent'.key
                /\ inflight' = inflight (+) SetToBag({r})
     /\ (lastEvent'.type = "trigger" /\ ~lastEvent'.issued)
        => inflight' = inflight
     /\ lastEvent'.type = "clear"
        => BagCardinality(inflight') = BagCardinality(inflight)
     /\ lastEvent'.type = "complete"
        => /\ BagCardinality(inflight') = BagCardinality(inflight) - 1
           /\ IF lastEvent'.applied
              THEN StatusOf(state', lastEvent'.key)
                     = IF lastEvent'.ok THEN "Fetched" ELSE "FetchFailed"
              ELSE state' = state]_vars

\* a fetch whose provider call threw has been completed as FetchFailed and
\* nothing is left in flight
C11_Witness ==
  /\ lastEvent.type = "complete" /\ ~lastEvent.ok /\ lastEvent.applied
  /\ StatusOf(state, lastEvent.key) = "FetchFailed"
  /\ inflight = EmptyBag

\* C14: a trigger with refresh, or for a key without records, puts a fetch
\* of the first page, without cursor and with limit 5, in flight; a trigger without refresh for
\* a key with records and foundOldest false puts a fetch in flight whose
\* cursor is the signature of the last record, with limit 5; the completion
\* update of a fetch records the cursor the fetch was issued with.
C14_CursorDecision ==
  [][/\ \A k \in Keys, refresh \in BOOLEAN :
          (/\ lastEvent'.type = "trigger"
           /\ lastEvent'.issued
           /\ lastEvent'.key = k
           /\ lastEvent'.refresh = refresh
           /\ Trigger(k, refresh))
          => LET entry == state.entries[k]
                 cursor == IF ~refresh /\ HasFetched(entry)
                           THEN entry.data.fetched[Len(entry.data.fetched)].signature
                           ELSE NoSignature
             IN /\ (~refresh /\ HasFetched(entry)) => ~entry.data.foundOldest
                /\ \E r \in BagToSet(inflight') :
                     /\ inflight' = inflight (+) SetToBag({r})
                     /\ r.key = k
                     /\ r.before = cursor
                     /\ cursor = NoSignature => r.start = 0
                     /\ r.limit = PageLimit
     /\ lastEvent'.type = "complete"
        => \A r \in BagToSet(inflight) :
             /\ (~lastEvent'.ok /\ r.key = lastEvent'.key
                 /\ Complete(r, FALSE, << >>))
                => CompletionData(r, FALSE, << >>).before = r.before
             /\ (lastEvent'.ok /\ r.key = lastEvent'.key)
                => \A fetched \in PagesOf(r) :
                     Complete(r, TRUE, fetched)
                     => CompletionData(r, TRUE, fetched).before = r.before]_vars

\* a trigger without refresh has put a next-page fetch in flight
C14_Witness ==
  /\ lastEvent.type = "trigger" /\ lastEvent.issued /\ ~lastEvent.refresh
  /\ HasFetched(state.entries[lastEvent.key])
  /\ \E r \in BagToSet(inflight) :
       /\ r.key = lastEvent.key
       /\ r.before = state.entries[r.key].data.fetched[
                       Len(state.entries[r.key].data.fetched)].signature

\* a status change the state machine of the fetch status allows
AllowedStatusStep(a, b) ==
  \/ a = b
  \/ b = "Fetching"
  \/ a = "Fetching" /\ b \in {"Fetched", "FetchFailed"}

\* C12: but for a clear, and leaving aside the completion of a fetch that
\* was in flight across a clear, every step changes the status of a key only
\* along Idle -> Fetching, Fetching -> Fetched, Fetching -> FetchFailed and
\* Fetched or FetchFailed -> Fetching.
C12_StatusStateMachine ==
  [][(/\ lastEvent'.type # "clear"
      /\ ~(lastEvent'.type = "complete" /\ lastEvent'.stale))
     => \A k \in Keys :
          AllowedStatusStep(StatusOf(state, k), StatusOf(state', k))]_vars

\* C13: the entry of a key whose status is FetchFailed is changed by nothing
\* but a trigger for that key or a clear (the completion of a fetch that was
\* in flight across a clear left aside).
C13_NoAutomaticRetry ==
  [][\A k \in Keys :
       (/\ StatusOf(state, k) = "FetchFailed"
        /\ ~(lastEvent'.type = "trigger" /\ lastEvent'.key = k)
        /\ lastEvent'.type # "clear"
        /\ ~(lastEvent'.type = "complete" /\ lastEvent'.stale))
       => state'.entries[k] = state.entries[k]]_vars

\* C15: a key whose history has foundOldest holds every upstream record.
C15_FoundOldestMeansComplete ==
  \A k \in Keys :
    (HasHistory(state.entries[k]) /\ state.entries[k].data.foundOldest)
    => \A i \in 1..Blocks[k] :
         \E j \in 1..Len(state.entries[k].data.fetched) :
           state.entries[k].data.fetched[j].signature = i

\* the last signature of a history's records is cursor
TailIs(history, cursor) ==
  /\ history # Undefined
  /\ Len(history.fetched) > 0
  /\ history.fetched[Len(history.fetched)].signature = cursor

\* C16: a successful completion is merged into the history the store holds
\* for the key at that moment: appended when its cursor is the signature of
\* the current last record, taken alone otherwise, foundOldest ORed; a
\* completion for another url than the store's is dropped.
C16_CompletionOrder ==
  [][\A r \in BagToSet(inflight) :
       (lastEvent'.type = "complete" /\ lastEvent'.ok /\ r.key = lastEvent'.key)
       => \A fetched \in PagesOf(r) :
         Complete(r, TRUE, fetched)
         => IF r.url # state.url THEN state' = state
            ELSE LET cur == EntryData(state.entries[r.key])
                     new == state'.entries[r.key].data
                 IN /\ new.fetched = IF TailIs(cur, r.before)
                                     THEN cur.fetched \o fetched
                                     ELSE fetched
                    /\ new.foundOldest
                         = (\/ Len(fetched) < r.limit
                            \/ (cur # Undefined /\ cur.foundOldest))]_vars

\* of two overlapping next-page fetches the later completion has replaced the
\* records with its page alone
C16_Witness ==
  /\ lastEvent.type = "complete" /\ lastEvent.ok /\ lastEvent.applied
  /\ ~lastEvent.stale /\ ~lastEvent.refresh
  /\ HasFetched(state.entries[lastEvent.key])
  /\ Len(state.entries[lastEvent.key].data.fetched) <= PageLimit
  /\ \A j \in 1..Len(state.entries[lastEvent.key].data.fetched) :
       state.entries[lastEvent.key].data.fetched[j].signature > PageLimit

\* key k has foundOldest
Found(k) == HasHistory(state.entries[k]) /\ state.entries[k].data.foundOldest

\* the records of key k are the upstream records, each once
HoldsAllOnce(k) ==
  LET f == state.entries[k].data.fetched
  IN /\ Len(f) = Blocks[k]
     /\ \A i \in 1..Blocks[k] : \E j \in 1..Len(f) : f[j].signature = i

\* C17: with triggers without refresh issued one at a time and every fetch
\* succeeding, each key reaches foundOldest, holds every upstream record
\* exactly once whenever it has foundOldest, and every completion before
\* that finds no history (first page) or its cursor at the tail (append).
C17_PaginationCompletes ==
  /\ \A k \in Keys : <>Found(k)
  /\ [](\A k \in Keys : Found(k) => HoldsAllOnce(k))
  /\ [][\A r \in BagToSet(inflight) :
          \A fetched \in PagesOf(r) :
            (Complete(r, TRUE, fetched) /\ ~Found(r.key))
            => LET cur == EntryData(state.entries[r.key])
               IN cur = Undefined \/ TailIs(cur, r.before)]_vars

\* two full pages have been paginated to the end
C17_Witness ==
  /\ Blocks["k1"] = 2 * PageLimit
  /\ Found("k1")
  /\ Len(state.entries["k1"].data.fetched) = 2 * PageLimit

\* r is the only fetch in flight for its key
AloneInFlight(r) ==
  /\ inflight[r] = 1
  /\ \A q \in BagToSet(inflight) : q.key = r.key => q = r

\* C18 as stated: a successful refresh of a key that had a history, with no
\* other fetch for the key in flight, leaves exactly the fetched first page
\* as the key's records.
C18_RefreshReplaces_AsStated ==
  [][\A r \in BagToSet(inflight) :
       (lastEvent'.type = "complete" /\ lastEvent'.ok /\ r.key = lastEvent'.key
        /\ r.refresh /\ AloneInFlight(r))
       => \A fetched \in PagesOf(r) :
         Complete(r, TRUE, fetched)
         => /\ HasHistory(state'.entries[r.key])
            /\ state'.entries[r.key].data.fetched = fetched]_vars

\* C18 amended: it does so when the refresh's url is the store's at the
\* completion; for another url the completion leaves the store as it was.
C18_RefreshReplaces ==
  [][\A r \in BagToSet(inflight) :
       (lastEvent'.type = "complete" /\ lastEvent'.ok /\ r.key = lastEvent'.key
        /\ r.refresh /\ AloneInFlight(r))
       => \A fetched \in PagesOf(r) :
         Complete(r, TRUE, fetched)
         => IF r.url = state.url
            THEN /\ HasHistory(state'.entries[r.key])
                 /\ state'.entries[r.key].data.fetched = fetched
            ELSE state' = state]_vars

\* a refresh of a key with more than one page upstream has completed and the
\* key holds one page
C18_Witness ==
  /\ lastEvent.type = "complete" /\ lastEvent.ok /\ lastEvent.applied
  /\ lastEvent.refresh
  /\ Blocks[lastEvent.key] > PageLimit
  /\ HasFetched(state.entries[lastEvent.key])
  /\ Len(state.entries[lastEvent.key].data.fetched) = PageLimit
  /\ state.entries[lastEvent.key].data.foundOldest

\* C19: a trigger or a completion for a key leaves the entry of every other
\* key as it was.
C19_KeysIndependent ==
  [][lastEvent'.type \in {"trigger", "complete"}
     => \A k \in Keys \ {lastEvent'.key} :
          state'.entries[k] = state.entries[k]]_vars

\* a fetch of one key has completed while the other key is Fetching
C19_Witness ==
  /\ lastEvent.type = "complete" /\ lastEvent.applied
  /\ HasFetched(state.entries[lastEvent.key])
  /\ \E k \in Keys \ {lastEvent.key} : StatusOf(state, k) = "Fetching"

\* ------------------------------------------------ claims about reconcile
\* reconcile applied a second time, to the result of the first
AppliedTwice == reconcile(rResult.value, rUpdate)

\* the reconcile call had an update with a history
AppliedHistory == rResult.done /\ UpdateHistory(rUpdate) # Undefined

\* C20 as stated: a second application gives the same records as the first
\* only if update.before is the signature of the last record after the first.
C20_Idempotence_AsStated ==
  (AppliedHistory /\ AppliedTwice.fetched = rResult.value.fetched)
  => TailIs(rResult.value, rUpdate.before)

\* C20 amended: a second application gives the same records as the first
\* only if the update's page is empty or update.before is not the signature
\* of the last record after the first.
C20_Idempotence ==
  (AppliedHistory /\ AppliedTwice.fetched = rResult.value.fetched)
  => \/ Len(rUpdate.history.fetched) = 0
     \/ ~TailIs(rResult.value, rUpdate.before)

\* a non-empty page replaced the records, and replaces them again the same
C20_Witness ==
  /\ AppliedHistory
  /\ rHistory # Undefined /\ Len(rHistory.fetched) > 0
  /\ Len(rUpdate.history.fetched) > 0
  /\ ~TailIs(rResult.value, rUpdate.before)
  /\ AppliedTwice.fetched = rResult.value.fetched

====
